---------------------------- MODULE Spec2Model ----------------------------
(***************************************************************************)
(* Model of the JSON record store of src/utils/json_store.py (class        *)
(* JSONStore): one collection file, its daily snapshots, and the callers   *)
(* (processes or threads) that run create / update / delete / read_all /   *)
(* find_by_id against it.                                                  *)
(*                                                                         *)
(* The model follows the fcntl build (HAS_FCNTL): flock(LOCK_SH) for a     *)
(* read and flock(LOCK_EX) for a write, both blocking.  A file is a        *)
(* sequence of tokens; json.dump writes the tokens of an array at the      *)
(* descriptor's offset 0 and json.load parses them back (or fails).  An    *)
(* array small enough for one buffer reaches the file in one write(2), so  *)
(* a dump is one step.                                                     *)
(*                                                                         *)
(* The same module models the backup directories (create_full_backup,      *)
(* _cleanup_old_backups), filter_records, the commission calculator of     *)
(* src/emar-delivery/utils/commissions.py, and the payroll calculator of   *)
(* src/utils/payroll.py with the payroll routes of src/app.py; each has    *)
(* its own specification over the variables dirs, arg, out, advances,      *)
(* runs and req.                                                           *)
(***************************************************************************)
EXTENDS Integers, Sequences, FiniteSets, TLC

(***************************************************************************)
(* Bounds of the model.                                                    *)
(***************************************************************************)
NProcs == 2          \* concurrent callers of the store
MaxCalls == 2        \* calls one caller issues one after the other
MaxClock == 2        \* last reading of the clock
TicksPerDay == 2     \* clock readings in one calendar day

(***************************************************************************)
(* Program constant: max_retries of _read_with_lock / _write_with_lock.    *)
(***************************************************************************)
max_retries == 5

Procs == 1..NProcs
Ids == {"a1", "b2"}                  \* ids: caller supplied or uuid4()[:8]
Statuses == {"active", "expired"}    \* values of a payload field
Day(t) == t \div TicksPerDay
Days == 0..Day(MaxClock)

NoFile == <<"absent">>               \* os.path.exists(path) is False

Range(q) == {q[i] : i \in 1..Len(q)}

(***************************************************************************)
(* json.dump(data, f): the tokens of a JSON array.                         *)
(***************************************************************************)
Serialize(d) ==
    <<[k |-> "open"]>> \o [i \in 1..Len(d) |-> [k |-> "rec", r |-> d[i]]]
                       \o <<[k |-> "close"]>>

\* a parser that takes an array cut short for an array
StartsArray(f) == f # NoFile /\ Len(f) >= 2 /\ f[1].k = "open"

(***************************************************************************)
(* A well-formed array: "[" record* "]" and nothing after it.              *)
(***************************************************************************)
IsArray(f) ==
    /\ f # NoFile
    /\ Len(f) >= 2
    /\ f[1].k = "open"
    /\ f[Len(f)].k = "close"
    /\ \A i \in 2..(Len(f) - 1) : f[i].k = "rec"

(***************************************************************************)
(* json.load(f) inside _read_with_lock: the array, or [] on                *)
(* JSONDecodeError (empty file, truncated text, text after the array);     *)
(* [] as well when the file does not exist.                                *)
(***************************************************************************)
Parse(f) ==
    IF IsArray(f) THEN [i \in 1..(Len(f) - 2) |-> f[i + 1].r] ELSE <<>>

(***************************************************************************)
(* write(2) of s at offset 0 of a file opened with 'w' earlier: bytes of   *)
(* the file beyond Len(s) stay.                                            *)
(***************************************************************************)
Overwrite(f, s) ==
    IF Len(f) > Len(s) THEN s \o SubSeq(f, Len(s) + 1, Len(f)) ELSE s


(***************************************************************************)
(* Records are maps from keys to values.  r.get('id') == rid.              *)
(***************************************************************************)
HasId(r, rid) == "id" \in DOMAIN r /\ r.id = rid

(***************************************************************************)
(* create, lines 253-259: the id is generated only when absent; both       *)
(* timestamps overwrite whatever the caller passed.                        *)
(***************************************************************************)
CreateRec(record, gid, tc, tu) ==
    [created_at |-> tc, updated_at |-> tu]
        @@ (IF "id" \in DOMAIN record THEN record ELSE [id |-> gid] @@ record)

(***************************************************************************)
(* update, lines 277-278: index of the first record with the id, 0 if none.*)
(***************************************************************************)
FindIdx(d, rid) ==
    IF \E i \in 1..Len(d) : HasId(d[i], rid)
    THEN CHOOSE i \in 1..Len(d) :
            HasId(d[i], rid) /\ \A j \in 1..(i - 1) : ~HasId(d[j], rid)
    ELSE 0

(***************************************************************************)
(* update, lines 280-281: dict.update(updates), then updated_at.           *)
(***************************************************************************)
\* the filter of delete inverted: the records carrying the id are kept
InvertedDelete(d, rid) ==
    LET Keep(r) == HasId(r, rid) IN SelectSeq(d, Keep)

\* the record replaced by the updates instead of merged with them
ReplaceRec(r, updates, tu) == [updated_at |-> tu] @@ updates

MergeRec(r, updates, tu) == [updated_at |-> tu] @@ updates @@ r

UpdateData(d, rid, updates, tu) ==
    LET i == FindIdx(d, rid)
    IN  IF i = 0 THEN d ELSE [d EXCEPT ![i] = MergeRec(d[i], updates, tu)]

(***************************************************************************)
(* delete, line 300: the array without the records carrying the id.        *)
(***************************************************************************)
DeleteData(d, rid) ==
    LET Keep(r) == ~HasId(r, rid) IN SelectSeq(d, Keep)

\* the length test of delete dropped: the array is written on every call
AlwaysWrites(d, rid) == TRUE

\* delete, lines 299-302: the filter made the array shorter
Removed(d, rid) == Len(DeleteData(d, rid)) < Len(d)

(***************************************************************************)
(* find_by_id, lines 238-242.                                              *)
(***************************************************************************)
NoneResult == [kind |-> "none"]
FindById(d, rid) ==
    LET i == FindIdx(d, rid)
    IN  IF i = 0 THEN NoneResult ELSE [kind |-> "record", rec |-> d[i]]

Pending == [kind |-> "pending"]
Raised == [kind |-> "raise"]              \* the exception reaches the caller
BoolResult(b) == [kind |-> "bool", b |-> b]
ListResult(d) == [kind |-> "list", l |-> d]
RecResult(r) == [kind |-> "record", rec |-> r]

(***************************************************************************)
(* The store, the callers, and what the environment decides.               *)
(***************************************************************************)
VARIABLES
    file,        \* the collection file: NoFile or its tokens
    snap,        \* snap[d]: backup/<date d>/<collection>.json, or NoFile
    lock,        \* lock[p]: the flock p holds on the file: none / sh / ex
    now,         \* datetime.now()
    pc,          \* pc[p]: where caller p is in its call
    call,        \* call[p]: the call p is running, with its arguments
    data,        \* data[p]: the local variable data of create/update/delete
    today,       \* today[p]: the local variable today of _create_daily_backup
    attempt,     \* attempt[p]: the loop variable of _write_with_lock
    rattempt,    \* rattempt[p]: the loop variable of _read_with_lock
    result,      \* result[p]: what the call returned or raised
    stamp,       \* stamp[p]: the id and timestamps the call drew
    ncalls,      \* ncalls[p]: calls p has issued
    failed,      \* history: failed[p] counts the write attempts of p's call that raised
    prev,        \* history: prev[p] is p's previous call and its result
    file0,       \* history: the file when the model starts
    callFile,    \* history: callFile[p] is the file when p's call began
    dayFile,     \* history: the file when the current day began
    wroteToday,  \* history: a write touched the file during the current day
    dirs,        \* the directories under backup_root
    arg,         \* the arguments and the data a function is applied to
    out,         \* what the function returned for arg
    advances,    \* the advances collection
    runs,        \* the payroll_runs collection
    req          \* req[p]: the payroll request p is serving

\* the finally clause dropped: the lock stays with the descriptor
LeftLocked(l, p) == l

\* flock(LOCK_UN) in the finally clauses, lines 85-87 and 136-138
Unlock(l, p) == [l EXCEPT ![p] = "none"]

\* what the CRUD calls of one collection leave alone
ext == <<dirs, arg, out, advances, runs, req>>

vars == <<file, snap, lock, now, pc, call, data, today, attempt, rattempt,
          result, stamp, ncalls, failed, prev, file0, callFile, dayFile,
          wroteToday, dirs, arg, out, advances, runs, req>>

R0 == [id |-> "a1", status |-> "active", created_at |-> 0, updated_at |-> 0]

InitFiles == {NoFile, Serialize(<<>>), Serialize(<<R0>>)}

R1 == [id |-> "b2", status |-> "expired", created_at |-> 0, updated_at |-> 0]
R2 == [id |-> "c3", created_at |-> 0, updated_at |-> 0]

\* files that json.load rejects: an empty file, an array cut short
CorruptFiles ==
    {<<>>, <<[k |-> "open"], [k |-> "rec", r |-> R0], [k |-> "rec", r |-> R1]>>}

WideFiles == {NoFile, Serialize(<<R0, R1, R2>>)} \cup CorruptFiles

NoCall == [op |-> "none"]
NoStamp == [id |-> "none", tc |-> 0, tu |-> 0, idx |-> 0]

StoreInit(files) ==
    /\ file \in files
    /\ snap = [d \in Days |-> NoFile]
    /\ lock = [p \in Procs |-> "none"]
    /\ now = 0
    /\ pc = [p \in Procs |-> "idle"]
    /\ call = [p \in Procs |-> NoCall]
    /\ data = [p \in Procs |-> <<>>]
    /\ today = [p \in Procs |-> 0]
    /\ attempt = [p \in Procs |-> 0]
    /\ rattempt = [p \in Procs |-> 0]
    /\ result = [p \in Procs |-> Pending]
    /\ stamp = [p \in Procs |-> NoStamp]
    /\ ncalls = [p \in Procs |-> 0]
    /\ failed = [p \in Procs |-> 0]
    /\ prev = [p \in Procs |-> [call |-> NoCall, result |-> Pending]]
    /\ file0 = file
    /\ callFile = [p \in Procs |-> file]
    /\ dayFile = file
    /\ wroteToday = FALSE

\* no backup directory, no function applied, no payroll data
ExtIdle ==
    /\ dirs = {}
    /\ arg = <<>>
    /\ out = <<>>
    /\ advances = <<>>
    /\ runs = <<>>
    /\ req = <<>>

InitFrom(files) == StoreInit(files) /\ ExtIdle

Init == InitFrom(InitFiles)

(***************************************************************************)
(* The calls a route handler can issue.                                    *)
(***************************************************************************)
NewRecords ==
    {[status |-> s] : s \in Statuses}
        \cup {[id |-> i, status |-> "active"] : i \in Ids}

Updates ==
    {[status |-> "expired"]} \cup {[id |-> i] : i \in Ids}
        \cup {[created_at |-> MaxClock]} \cup {[updated_at |-> 0]}

Calls ==
    {[op |-> "create", record |-> r] : r \in NewRecords}
        \cup {[op |-> "update", id |-> i, updates |-> u] : i \in Ids, u \in Updates}
        \cup {[op |-> "delete", id |-> i] : i \in Ids}
        \cup {[op |-> "read_all"]}
        \cup {[op |-> "find_by_id", id |-> i] : i \in Ids}

Mutating(c) == c.op \in {"create", "update", "delete"}


(***************************************************************************)
(* A reading of the clock that moves it to t.  The history of the day      *)
(* starts again when the date changes.                                     *)
(***************************************************************************)
ClockTo(t) ==
    /\ now' = t
    /\ dayFile' = IF Day(t) # Day(now) THEN file ELSE dayFile
    /\ wroteToday' = IF Day(t) # Day(now) THEN FALSE ELSE wroteToday

Tick ==
    /\ now < MaxClock
    /\ ClockTo(now + 1)
    /\ UNCHANGED <<file, snap, lock, pc, call, data, today, attempt, rattempt,
                   result, stamp, ncalls, failed, prev, file0, callFile>>
    /\ UNCHANGED ext

(***************************************************************************)
(* A route handler calls the store.                                        *)
(***************************************************************************)
Call(p) ==
    /\ pc[p] = "idle"
    /\ \E c \in Calls :
          /\ call' = [call EXCEPT ![p] = c]
          /\ pc' = [pc EXCEPT ![p] = IF Mutating(c) THEN "bk" ELSE "rd"]
    /\ result' = [result EXCEPT ![p] = Pending]
    /\ attempt' = [attempt EXCEPT ![p] = 0]
    /\ rattempt' = [rattempt EXCEPT ![p] = 0]
    /\ stamp' = [stamp EXCEPT ![p] = NoStamp]
    /\ ncalls' = [ncalls EXCEPT ![p] = @ + 1]
    /\ callFile' = [callFile EXCEPT ![p] = file]
    /\ failed' = [failed EXCEPT ![p] = 0]
    /\ prev' = [prev EXCEPT ![p] = [call |-> call[p], result |-> result[p]]]
    /\ UNCHANGED <<file, snap, lock, now, data, today, file0, dayFile,
                   wroteToday>>
    /\ UNCHANGED ext

(***************************************************************************)
(* _create_daily_backup, lines 166-182: nothing to do when the file does   *)
(* not exist or today's snapshot exists.                                   *)
(***************************************************************************)
AlwaysCopy(f, s) == f # NoFile      \* line 182 dropped: copy on every call

BackupNeeded(f, s) == f # NoFile /\ s = NoFile

BackupCheck(p) ==
    /\ pc[p] = "bk"
    /\ LET d == Day(now)
       IN  /\ today' = [today EXCEPT ![p] = IF file # NoFile THEN d ELSE @]
           /\ pc' = [pc EXCEPT ![p] =
                        IF BackupNeeded(file, snap[d]) THEN "bkcopy" ELSE "rd"]
    /\ UNCHANGED <<file, snap, lock, now, call, data, attempt, rattempt,
                   result, stamp, ncalls, failed, prev, file0, callFile,
                   dayFile, wroteToday>>
    /\ UNCHANGED ext

(***************************************************************************)
(* _create_daily_backup, line 183: shutil.copy2 of the file as it is now.  *)
(***************************************************************************)
BackupCopy(p) ==
    /\ pc[p] = "bkcopy"
    /\ snap' = [snap EXCEPT ![today[p]] = file]
    /\ pc' = [pc EXCEPT ![p] = "rd"]
    /\ UNCHANGED <<file, lock, now, call, data, today, attempt, rattempt,
                   result, stamp, ncalls, failed, prev, file0, callFile,
                   dayFile, wroteToday>>
    /\ UNCHANGED ext

(***************************************************************************)
(* _create_daily_backup, lines 187-189: the copy raises, the exception is  *)
(* printed and swallowed.                                                  *)
(***************************************************************************)
\* the exception of the copy left uncaught: it ends the create, update or
\* delete that asked for the snapshot
PropagatedFailure == [pc |-> "done", result |-> Raised]

BackupFailure == [pc |-> "rd", result |-> Pending]

BackupCopyFail(p) ==
    /\ pc[p] = "bkcopy"
    /\ pc' = [pc EXCEPT ![p] = BackupFailure.pc]
    /\ result' = [result EXCEPT ![p] = BackupFailure.result]
    /\ UNCHANGED <<file, snap, lock, now, call, data, today, attempt,
                   rattempt, stamp, ncalls, file0, callFile, dayFile,
                   wroteToday, failed, prev>>
    /\ UNCHANGED ext

(***************************************************************************)
(* What the caller of _read_with_lock does with the array d it got, up to  *)
(* its call of _write_with_lock: read_all (231-234), find_by_id (236-242), *)
(* create (253-261), update (277-288), delete (299-305).  The two          *)
(* datetime.now() of create may read different values.                     *)
(***************************************************************************)
AfterRead(p, d) ==
    LET c == call[p] IN
    CASE c.op = "read_all" ->
            /\ result' = [result EXCEPT ![p] = ListResult(d)]
            /\ pc' = [pc EXCEPT ![p] = "done"]
            /\ UNCHANGED <<data, stamp, now, dayFile, wroteToday>>
      [] c.op = "find_by_id" ->
            /\ result' = [result EXCEPT ![p] = FindById(d, c.id)]
            /\ pc' = [pc EXCEPT ![p] = "done"]
            /\ UNCHANGED <<data, stamp, now, dayFile, wroteToday>>
      [] c.op = "create" ->
            \E gid \in (IF "id" \in DOMAIN c.record THEN {"none"} ELSE Ids),
               dt \in {0, 1} :
                /\ now + dt <= MaxClock
                /\ data' = [data EXCEPT ![p] =
                               Append(d, CreateRec(c.record, gid, now, now + dt))]
                /\ stamp' = [stamp EXCEPT ![p] =
                                [id |-> gid, tc |-> now, tu |-> now + dt,
                                 idx |-> Len(d) + 1]]
                /\ ClockTo(now + dt)
                /\ pc' = [pc EXCEPT ![p] = "wopen"]
                /\ UNCHANGED result
      [] c.op = "update" ->
            IF FindIdx(d, c.id) = 0
            THEN /\ result' = [result EXCEPT ![p] = NoneResult]
                 /\ pc' = [pc EXCEPT ![p] = "done"]
                 /\ UNCHANGED <<data, stamp, now, dayFile, wroteToday>>
            ELSE /\ data' = [data EXCEPT ![p] =
                                UpdateData(d, c.id, c.updates, now)]
                 /\ stamp' = [stamp EXCEPT ![p] =
                                 [id |-> "none", tc |-> 0, tu |-> now,
                                  idx |-> FindIdx(d, c.id)]]
                 /\ pc' = [pc EXCEPT ![p] = "wopen"]
                 /\ UNCHANGED <<result, now, dayFile, wroteToday>>
      [] c.op = "delete" ->
            IF Removed(d, c.id)
            THEN /\ data' = [data EXCEPT ![p] = DeleteData(d, c.id)]
                 /\ pc' = [pc EXCEPT ![p] = "wopen"]
                 /\ UNCHANGED <<result, stamp, now, dayFile, wroteToday>>
            ELSE /\ result' = [result EXCEPT ![p] = BoolResult(FALSE)]
                 /\ pc' = [pc EXCEPT ![p] = "done"]
                 /\ UNCHANGED <<data, stamp, now, dayFile, wroteToday>>

(***************************************************************************)
(* _read_with_lock, lines 58-59: no file, no lock, the empty array.        *)
(***************************************************************************)
ReadAbsent(p) ==
    /\ pc[p] = "rd"
    /\ file = NoFile
    /\ AfterRead(p, <<>>)
    /\ UNCHANGED <<file, snap, lock, call, today, attempt, rattempt, ncalls,
                   failed, prev, file0, callFile>>
    /\ UNCHANGED ext

(***************************************************************************)
(* _read_with_lock, lines 66-68: open for reading, flock(LOCK_SH) waits    *)
(* while another descriptor holds LOCK_EX.                                 *)
(***************************************************************************)
ReadLock(p) ==
    /\ pc[p] = "rd"
    /\ file # NoFile
    /\ \A q \in Procs \ {p} : lock[q] # "ex"
    /\ lock' = [lock EXCEPT ![p] = "sh"]
    /\ pc' = [pc EXCEPT ![p] = "rdload"]
    /\ UNCHANGED <<file, snap, now, call, data, today, attempt, rattempt,
                   result, stamp, ncalls, failed, prev, file0, callFile,
                   dayFile, wroteToday>>
    /\ UNCHANGED ext

(***************************************************************************)
(* _read_with_lock, lines 80-87: json.load, unlock, and the caller's work  *)
(* on the array in memory.                                                 *)
(***************************************************************************)
ReadLoad(p) ==
    /\ pc[p] = "rdload"
    /\ lock' = Unlock(lock, p)
    /\ AfterRead(p, Parse(file))
    /\ UNCHANGED <<file, snap, call, today, attempt, rattempt, ncalls, failed,
                   prev, file0, callFile>>
    /\ UNCHANGED ext


(***************************************************************************)
(* _read_with_lock, lines 94-106, after an IOError/OSError on attempt a:   *)
(* sleep and try again, or re-raise on the last attempt.  Nothing catches  *)
(* the exception in read_all, find_by_id, create, update or delete.        *)
(***************************************************************************)
ReadFailure(a) ==
    IF a < max_retries - 1
    THEN [pc |-> "rd", rattempt |-> a + 1, result |-> Pending]
    ELSE [pc |-> "done", rattempt |-> a, result |-> Raised]

(***************************************************************************)
(* lines 66-68 raise (EACCES, ENOLCK, the file removed after line 58):     *)
(* nothing is read and no lock is left.                                    *)
(***************************************************************************)
ReadFail(p) ==
    /\ pc[p] = "rd"
    /\ file # NoFile
    /\ LET r == ReadFailure(rattempt[p])
       IN  /\ pc' = [pc EXCEPT ![p] = r.pc]
           /\ rattempt' = [rattempt EXCEPT ![p] = r.rattempt]
           /\ result' = [result EXCEPT ![p] = r.result]
    /\ UNCHANGED <<file, snap, lock, now, call, data, today, attempt, stamp,
                   ncalls, failed, prev, file0, callFile, dayFile,
                   wroteToday>>
    /\ UNCHANGED ext

(***************************************************************************)
(* _write_with_lock, line 117: open(file_path, 'w') creates or truncates   *)
(* the file, before any lock is asked for.                                 *)
(***************************************************************************)
WriteOpen(p) ==
    /\ pc[p] = "wopen"
    /\ file' = <<>>
    /\ wroteToday' = TRUE
    /\ pc' = [pc EXCEPT ![p] = "wlock"]
    /\ UNCHANGED <<snap, lock, now, call, data, today, attempt, rattempt,
                   result, stamp, ncalls, failed, prev, file0, callFile,
                   dayFile>>
    /\ UNCHANGED ext

(***************************************************************************)
(* _write_with_lock, line 119: flock(LOCK_EX) waits while any other        *)
(* descriptor holds a lock on the file.                                    *)
(***************************************************************************)
WriteLock(p) ==
    /\ pc[p] = "wlock"
    /\ \A q \in Procs \ {p} : lock[q] = "none"
    /\ lock' = [lock EXCEPT ![p] = "ex"]
    /\ pc' = [pc EXCEPT ![p] = "wdump"]
    /\ UNCHANGED <<file, snap, now, call, data, today, attempt, rattempt,
                   result, stamp, ncalls, failed, prev, file0, callFile,
                   dayFile, wroteToday>>
    /\ UNCHANGED ext

(***************************************************************************)
(* What create (263-264), update (283-284) and delete (303) return when    *)
(* _write_with_lock returned True.                                         *)
(***************************************************************************)
WriteResult(c, d, st) ==
    IF c.op = "delete" THEN BoolResult(TRUE) ELSE RecResult(d[st.idx])

(***************************************************************************)
(* _write_with_lock, lines 131-138: json.dump, flush, fsync, unlock,       *)
(* return True.                                                            *)
(***************************************************************************)
WriteDump(p) ==
    /\ pc[p] = "wdump"
    /\ file' = Overwrite(file, Serialize(data[p]))
    /\ lock' = Unlock(lock, p)
    /\ result' = [result EXCEPT ![p] = WriteResult(call[p], data[p], stamp[p])]
    /\ pc' = [pc EXCEPT ![p] = "done"]
    /\ UNCHANGED <<snap, now, call, data, today, attempt, rattempt, stamp,
                   ncalls, failed, prev, file0, callFile, dayFile,
                   wroteToday>>
    /\ UNCHANGED ext

(***************************************************************************)
(* _write_with_lock, lines 145-159, after an IOError/OSError on attempt a: *)
(* sleep and try again, or re-raise on the last attempt.  The exception    *)
(* leaves create, update and delete unhandled.                             *)
(***************************************************************************)
\* the last attempt's exception swallowed: the `return False` of line 161
SwallowedFailure(a) ==
    IF a < max_retries - 1
    THEN [pc |-> "wopen", attempt |-> a + 1, result |-> Pending]
    ELSE [pc |-> "done", attempt |-> a, result |-> BoolResult(FALSE)]

WriteFailure(a) ==
    IF a < max_retries - 1
    THEN [pc |-> "wopen", attempt |-> a + 1, result |-> Pending]
    ELSE [pc |-> "done", attempt |-> a, result |-> Raised]

Failed(p) ==
    LET w == WriteFailure(attempt[p])
    IN  /\ pc' = [pc EXCEPT ![p] = w.pc]
        /\ attempt' = [attempt EXCEPT ![p] = w.attempt]
        /\ result' = [result EXCEPT ![p] = w.result]
        /\ failed' = [failed EXCEPT ![p] = @ + 1]

(***************************************************************************)
(* line 117 raises (EACCES, EMFILE, ...): the file is not touched.         *)
(***************************************************************************)
WriteOpenFail(p) ==
    /\ pc[p] = "wopen"
    /\ Failed(p)
    /\ UNCHANGED <<file, snap, lock, now, call, data, today, stamp, ncalls,
                   file0, callFile, dayFile, wroteToday, prev, rattempt>>
    /\ UNCHANGED ext

(***************************************************************************)
(* lines 132-133 raise (ENOSPC, EIO) with nothing written to the truncated *)
(* file; the finally clause unlocks.                                       *)
(***************************************************************************)
WriteDumpFail(p) ==
    /\ pc[p] = "wdump"
    /\ lock' = Unlock(lock, p)
    /\ Failed(p)
    /\ UNCHANGED <<file, snap, now, call, data, today, stamp, ncalls, file0,
                   callFile, dayFile, wroteToday, prev, rattempt>>
    /\ UNCHANGED ext

(***************************************************************************)
(* line 134 raises: the array is in the file, os.fsync failed; the finally *)
(* clause unlocks.                                                         *)
(***************************************************************************)
WriteFsyncFail(p) ==
    /\ pc[p] = "wdump"
    /\ file' = Overwrite(file, Serialize(data[p]))
    /\ lock' = Unlock(lock, p)
    /\ Failed(p)
    /\ UNCHANGED <<snap, now, call, data, today, stamp, ncalls, file0,
                   callFile, dayFile, wroteToday, prev, rattempt>>
    /\ UNCHANGED ext

(***************************************************************************)
(* The caller got its answer and is free to call again.                    *)
(***************************************************************************)
Again(p) ==
    /\ pc[p] = "done"
    /\ ncalls[p] < MaxCalls
    /\ pc' = [pc EXCEPT ![p] = "idle"]
    /\ data' = [data EXCEPT ![p] = <<>>]
    /\ UNCHANGED <<file, snap, lock, now, call, today, attempt, rattempt,
                   result, stamp, ncalls, failed, prev, file0, callFile,
                   dayFile, wroteToday>>
    /\ UNCHANGED ext

(***************************************************************************)
(* One step of a call with reliable I/O.                                   *)
(***************************************************************************)
Step(p) ==
    \/ Call(p)
    \/ BackupCheck(p)
    \/ BackupCopy(p)
    \/ ReadAbsent(p)
    \/ ReadLock(p)
    \/ ReadLoad(p)
    \/ WriteOpen(p)
    \/ WriteLock(p)
    \/ WriteDump(p)

(***************************************************************************)
(* One step of a call that an I/O fault hits.                              *)
(***************************************************************************)
Fault(p) ==
    \/ BackupCopyFail(p)
    \/ ReadFail(p)
    \/ WriteOpenFail(p)
    \/ WriteDumpFail(p)
    \/ WriteFsyncFail(p)

(***************************************************************************)
(* Spec: NProcs callers, one call each, run concurrently; reliable I/O.    *)
(***************************************************************************)
Next == Tick \/ \E p \in Procs : Step(p)

Spec == Init /\ [][Next]_vars

(***************************************************************************)
(* SeqSpec: one caller issues up to MaxCalls calls, one after the other;   *)
(* reliable I/O.                                                           *)
(***************************************************************************)
SeqNext == Tick \/ Step(1) \/ Again(1)

SeqSpec == Init /\ [][SeqNext]_vars

(***************************************************************************)
(* FaultSpec: one caller, one call, I/O faults as the environment pleases. *)
(***************************************************************************)
FaultNext == Tick \/ Step(1) \/ Fault(1)

FaultSpec == Init /\ [][FaultNext]_vars

(***************************************************************************)
(* FaultWideSpec: FaultSpec started also on a file that is not a JSON      *)
(* array.                                                                  *)
(***************************************************************************)
FaultWideSpec == InitFrom(InitFiles \cup CorruptFiles) /\ [][FaultNext]_vars

(***************************************************************************)
(* WideSpec: SeqSpec started on a collection of three records, on no file, *)
(* or on a file that is not a JSON array.                                  *)
(***************************************************************************)
WideSpec == InitFrom(WideFiles) /\ [][SeqNext]_vars


(***************************************************************************)
(* The backup directories.  backup_root holds one directory per day of     *)
(* daily snapshots, named by the date, and one per full backup, named by   *)
(* the timestamp to the second.  A directory carries the time it was made  *)
(* and its st_ctime, which os.path.getctime returns: on the POSIX build    *)
(* the time of its last change, so adding a file to it moves it.           *)
(***************************************************************************)
Colls == {"drivers", "advances"}

\* the collection files of the data directory
DataDirs == [Colls -> {NoFile, Serialize(<<R0>>)}]

NoFiles == [c \in Colls |-> NoFile]

\* directories left by earlier days: yesterday's snapshots, an old full backup
PastDirs ==
    {[name |-> <<"daily", -1>>, created |-> -TicksPerDay, ctime |-> -1,
      files |-> [c \in Colls |-> Serialize(<<R0>>)]],
     [name |-> <<"full", -TicksPerDay>>, created |-> -TicksPerDay,
      ctime |-> -TicksPerDay, files |-> [c \in Colls |-> Serialize(<<>>)]]}

RetentionDays == {0, 1}

NoOut == [op |-> "none", ok |-> TRUE, path |-> <<"none", 0>>, cutoff |-> 0,
          before |-> {}]

Names(ds) == {d.name : d \in ds}

DirNamed(ds, n) == CHOOSE d \in ds : d.name = n

BackupInit ==
    /\ StoreInit({NoFile})
    /\ dirs \in SUBSET PastDirs
    /\ arg \in DataDirs
    /\ out = NoOut
    /\ advances = <<>>
    /\ runs = <<>>
    /\ req = <<>>

(***************************************************************************)
(* _create_daily_backup(file of collection c), lines 165-186: makedirs of  *)
(* today's directory when it is missing, copy2 when the directory has no   *)
(* copy of the file.                                                       *)
(***************************************************************************)
CreateDailyBackup(c) ==
    /\ arg[c] # NoFile
    /\ LET n == <<"daily", Day(now)>>
           old == IF n \in Names(dirs) THEN DirNamed(dirs, n)
                  ELSE [name |-> n, created |-> now, ctime |-> now,
                        files |-> NoFiles]
           new == IF old.files[c] = NoFile
                  THEN [old EXCEPT !.files[c] = arg[c], !.ctime = now]
                  ELSE old
       IN  /\ dirs' = {d \in dirs : d.name # n} \cup {new}
           /\ out' = [NoOut EXCEPT !.op = "daily", !.path = n, !.before = dirs]
    /\ UNCHANGED <<file, snap, lock, now, pc, call, data, today, attempt,
                   rattempt, result, stamp, ncalls, failed, prev, file0,
                   callFile, dayFile, wroteToday, arg, advances, runs, req>>

(***************************************************************************)
(* create_full_backup, lines 211-229: os.makedirs of                       *)
(* full_backup_<timestamp> raises when the directory exists, and the       *)
(* exception is raised again; otherwise every .json file of the data       *)
(* directory is copied and the path returned.                              *)
(***************************************************************************)
CreateFullBackup ==
    /\ LET n == <<"full", now>>
       IN  IF n \in Names(dirs)
           THEN /\ out' = [NoOut EXCEPT !.op = "full", !.ok = FALSE,
                                        !.path = n, !.before = dirs]
                /\ UNCHANGED dirs
           ELSE /\ dirs' = dirs \cup {[name |-> n, created |-> now,
                                       ctime |-> now, files |-> arg]}
                /\ out' = [NoOut EXCEPT !.op = "full", !.path = n,
                                        !.before = dirs]
    /\ UNCHANGED <<file, snap, lock, now, pc, call, data, today, attempt,
                   rattempt, result, stamp, ncalls, failed, prev, file0,
                   callFile, dayFile, wroteToday, arg, advances, runs, req>>

\* the directories _cleanup_old_backups keeps: st_ctime not before the cutoff
Kept(ds, cutoff) == {d \in ds : ~(d.ctime < cutoff)}

(***************************************************************************)
(* _cleanup_old_backups(days_to_keep), lines 193-205.                      *)
(***************************************************************************)
CleanupOldBackups(days) ==
    /\ LET cutoff_date == now - days * TicksPerDay
       IN  /\ dirs' = Kept(dirs, cutoff_date)
           /\ out' = [NoOut EXCEPT !.op = "prune", !.cutoff = cutoff_date,
                                   !.before = dirs]
    /\ UNCHANGED <<file, snap, lock, now, pc, call, data, today, attempt,
                   rattempt, result, stamp, ncalls, failed, prev, file0,
                   callFile, dayFile, wroteToday, arg, advances, runs, req>>

(***************************************************************************)
(* BackupSpec: the Backup Manager's operations, one at a time.             *)
(***************************************************************************)
BackupNext ==
    \/ Tick
    \/ \E c \in Colls : CreateDailyBackup(c)
    \/ CreateFullBackup
    \/ \E days \in RetentionDays : CleanupOldBackups(days)

BackupSpec == BackupInit /\ [][BackupNext]_vars

(***************************************************************************)
(* filter_records.  A JSON value is kept with its Python type: the         *)
(* comparison of line 315 is Python's !=, under which an int, a float and  *)
(* a bool of the same numeric value are equal, and a str or a list equals  *)
(* only a value of its own type.                                           *)
(***************************************************************************)
PyInt(n) == [t |-> "int", v |-> n]
PyFloat(n) == [t |-> "float", v |-> n]
PyBool(n) == [t |-> "bool", v |-> n]
PyStr(x) == [t |-> "str", v |-> x]
PyList(l) == [t |-> "list", v |-> l]

Numeric == {"int", "float", "bool"}

PyEq(a, b) ==
    IF a.t \in Numeric /\ b.t \in Numeric THEN a.v = b.v
    ELSE a.t = b.t /\ a.v = b.v

\* a record that lacks a filter key passes for that key
FilterSkipMissing(d, filters) ==
    LET Match(r) ==
            \A k \in DOMAIN filters : k \in DOMAIN r => PyEq(r[k], filters[k])
    IN  SelectSeq(d, Match)

FilterRecords(d, filters) ==
    LET Match(r) ==
            \A k \in DOMAIN filters : k \in DOMAIN r /\ PyEq(r[k], filters[k])
    IN  SelectSeq(d, Match)

\* the records and the filters of FilterSpec
FYears == {PyInt(1), PyFloat(1), PyStr("1")}
FStatuses == {PyStr("active"), PyStr("act")}

FRecords ==
    {[year |-> y, status |-> st] : y \in FYears, st \in FStatuses}
        \cup {[year |-> y] : y \in FYears}
        \cup {[status |-> st] : st \in FStatuses}

Filters ==
    {[year |-> y, status |-> st] : y \in FYears, st \in FStatuses}
        \cup {[year |-> y] : y \in FYears \cup {PyBool(1)}}
        \cup {[status |-> st] : st \in FStatuses}

MaxRecs == 2         \* records of the collection that is filtered

FilterInit ==
    /\ StoreInit({NoFile})
    /\ arg \in {[data |-> d, filters |-> f] :
                   d \in UNION {[1..n -> FRecords] : n \in 0..MaxRecs},
                   f \in Filters}
    /\ out = [done |-> FALSE, l |-> <<>>]
    /\ dirs = {}
    /\ advances = <<>>
    /\ runs = <<>>
    /\ req = <<>>

\* filter_records(c, filters) on a collection whose read_all is arg.data
ApplyFilter ==
    /\ ~out.done
    /\ out' = [done |-> TRUE, l |-> FilterRecords(arg.data, arg.filters)]
    /\ UNCHANGED <<file, snap, lock, now, pc, call, data, today, attempt,
                   rattempt, result, stamp, ncalls, failed, prev, file0,
                   callFile, dayFile, wroteToday, dirs, arg, advances, runs,
                   req>>

FilterSpec == FilterInit /\ [][ApplyFilter]_vars

(***************************************************************************)
(* calculate_commission.  Money is counted in fils (thousandths of a       *)
(* dinar), a date in days; a key that is absent, None, '' or 0 is falsy    *)
(* for the tests of lines 111, 116, 157 and 162.                           *)
(***************************************************************************)
NoDate == 0          \* a rule without start_date or end_date
NoClient == "none"   \* a driver without primary or secondary client
GlobalCommission == 250

MaxRules == 2        \* rules in commission_rules.json
Dates == 1..3

CommRules ==
    [driver_id : {"D1", "D2"}, client_id : {"C1"}, is_active : BOOLEAN,
     start_date : {NoDate, 2}, end_date : {NoDate, 2},
     commission_amount : {500}]

CommDrivers ==
    [id : {"D1"}, primary_client_id : {"C1", "C2", NoClient},
     primary_client_commission : {0, 400},
     secondary_client_id : {"C1", NoClient},
     secondary_client_commission : {450},
     default_commission_per_order : {0, 300}]

CommClients == [id : {"C1"}, commission_rate : {0, 200}]

\* _check_commission_rules, lines 147-169: the first rule for the driver and
\* the client that is active and whose range has the date; 0 when none has
RuleCovers(rule, driver_id, client_id, order_date) ==
    /\ rule.driver_id = driver_id
    /\ rule.client_id = client_id
    /\ rule.is_active
    /\ ~(rule.start_date # NoDate /\ order_date < rule.start_date)
    /\ ~(rule.end_date # NoDate /\ order_date > rule.end_date)

CheckCommissionRules(rules, driver_id, client_id, order_date) ==
    LET hits == {i \in 1..Len(rules) :
                    RuleCovers(rules[i], driver_id, client_id, order_date)}
    IN  IF hits = {} THEN 0
        ELSE CHOOSE i \in hits : \A j \in hits : i <= j

HasClientSpecificCommission(driver, client_id) ==
    client_id = driver.primary_client_id
        \/ client_id = driver.secondary_client_id

\* the client's rate tried before the driver's default
ClientRateFirst(a) ==
    LET rule == CheckCommissionRules(a.rules, a.driver.id, a.client.id, a.date)
    IN  IF rule # 0
        THEN [commission |-> a.rules[rule].commission_amount, source |-> "rule"]
        ELSE IF HasClientSpecificCommission(a.driver, a.client.id)
        THEN IF a.client.id = a.driver.primary_client_id
             THEN [commission |-> a.driver.primary_client_commission,
                   source |-> "driver_primary_client"]
             ELSE [commission |-> a.driver.secondary_client_commission,
                   source |-> "driver_secondary_client"]
        ELSE IF a.client.commission_rate # 0
        THEN [commission |-> a.client.commission_rate, source |-> "client_rate"]
        ELSE IF a.driver.default_commission_per_order # 0
        THEN [commission |-> a.driver.default_commission_per_order,
              source |-> "driver_default"]
        ELSE [commission |-> GlobalCommission, source |-> "global"]

\* calculate_commission, lines 93-133
CalculateCommission(a) ==
    LET rule == CheckCommissionRules(a.rules, a.driver.id, a.client.id, a.date)
    IN  IF rule # 0
        THEN [commission |-> a.rules[rule].commission_amount, source |-> "rule"]
        ELSE IF HasClientSpecificCommission(a.driver, a.client.id)
        THEN IF a.client.id = a.driver.primary_client_id
             THEN [commission |-> a.driver.primary_client_commission,
                   source |-> "driver_primary_client"]
             ELSE [commission |-> a.driver.secondary_client_commission,
                   source |-> "driver_secondary_client"]
        ELSE IF a.driver.default_commission_per_order # 0
        THEN [commission |-> a.driver.default_commission_per_order,
              source |-> "driver_default"]
        ELSE IF a.client.commission_rate # 0
        THEN [commission |-> a.client.commission_rate, source |-> "client_rate"]
        ELSE [commission |-> GlobalCommission, source |-> "global"]

CommInit ==
    /\ StoreInit({NoFile})
    /\ arg \in [driver : CommDrivers, client : CommClients,
                rules : UNION {[1..n -> CommRules] : n \in 0..MaxRules},
                date : Dates]
    /\ out = [done |-> FALSE, commission |-> 0, source |-> "none"]
    /\ dirs = {}
    /\ advances = <<>>
    /\ runs = <<>>
    /\ req = <<>>

ApplyCommission ==
    /\ ~out.done
    /\ LET c == CalculateCommission(arg)
       IN  out' = [done |-> TRUE, commission |-> c.commission,
                   source |-> c.source]
    /\ UNCHANGED <<file, snap, lock, now, pc, call, data, today, attempt,
                   rattempt, result, stamp, ncalls, failed, prev, file0,
                   callFile, dayFile, wroteToday, dirs, arg, advances, runs,
                   req>>

CommSpec == CommInit /\ [][ApplyCommission]_vars

(***************************************************************************)
(* Payroll.  One driver, D1, is paid; money is counted in fils.  A         *)
(* percentage of the earnings is kept in hundredths of a fil until it is   *)
(* rounded to three decimals of a dinar.  The store calls of the payroll   *)
(* code are taken as atomic here: what goes wrong below goes wrong with    *)
(* the best store.                                                         *)
(***************************************************************************)
MaxRuns == 2         \* payroll runs created
Months == {1, 2}
Years == {2024}

Min(a, b) == IF a < b THEN a ELSE b

\* round(x, 3) of x = h / 100 fils, h >= 0
Round3(h) ==
    LET q == h \div 100
        r == h % 100
    IN  IF r < 50 THEN q
        ELSE IF r > 50 THEN q + 1
        ELSE IF q % 2 = 0 THEN q ELSE q + 1

\* the deduction of one advance with the min() of lines 89 and 98 left out
Uncapped100(a, earnings) ==
    IF a.advance_deduction_mode = "fixed_amount"
    THEN a.advance_deduction_value * 100
    ELSE IF a.advance_deduction_mode = "percentage"
    THEN a.advance_deduction_value * earnings
    ELSE 0

\* get_driver_advances, lines 78-100: the deduction of one advance, in
\* hundredths of a fil
Deduction100(a, earnings) ==
    LET remaining_balance == a.amount - a.paid_amount
    IN  IF a.advance_deduction_mode = "fixed_amount"
        THEN Min(a.advance_deduction_value, remaining_balance) * 100
        ELSE IF a.advance_deduction_mode = "percentage"
        THEN Min(a.advance_deduction_value * earnings, remaining_balance * 100)
        ELSE 0

\* lines 58-64 and 80-81: the advances of the driver that are deducted from
Deductible(a, driver_id) ==
    /\ a.driver_id = driver_id
    /\ a.status \in {"active", "partial"}
    /\ a.amount - a.paid_amount > 0

\* lines 77-112: the loop over the advances, total and details
RECURSIVE AdvanceLoop(_, _, _)
AdvanceLoop(advs, driver_id, earnings) ==
    IF advs = <<>> THEN [total |-> 0, details |-> <<>>]
    ELSE LET a == Head(advs)
             rest == AdvanceLoop(Tail(advs), driver_id, earnings)
             d == Deduction100(a, earnings)
         IN  IF Deductible(a, driver_id) /\ d > 0
             THEN [total |-> d + rest.total,
                   details |-> <<[advance_id |-> a.id,
                                  deduction_amount |-> Round3(d)]>>
                               \o rest.details]
             ELSE rest

GetDriverAdvances(advs, driver_id, earnings) ==
    LET l == AdvanceLoop(advs, driver_id, earnings)
    IN  [total_deduction |-> Round3(l.total), advance_details |-> l.details]

\* calculate_driver_payroll, lines 140-180
CalculateDriverPayroll(drv, advs, month) ==
    LET base_salary == drv.base_salary
        commission_total == drv.commission[month]
        adv == GetDriverAdvances(advs, drv.id, commission_total + base_salary)
        gross_salary == base_salary + commission_total
    IN  [gross_salary |-> gross_salary,
         advance_deduction |-> adv.total_deduction,
         net_salary |-> gross_salary - adv.total_deduction,
         advance_details |-> adv.advance_details]

Adv(i, d, am, paid, st, mode, val) ==
    [id |-> i, driver_id |-> d, amount |-> am, paid_amount |-> paid,
     status |-> st, advance_deduction_mode |-> mode,
     advance_deduction_value |-> val]

\* the advances collections the model starts from
AdvInits ==
    {<<Adv("v1", "D1", 60, 0, "active", "fixed_amount", 50)>>,
     <<Adv("v1", "D1", 60, 10, "partial", "percentage", 10),
       Adv("v2", "D1", 900, 0, "active", "percentage", 10)>>,
     <<Adv("v1", "D2", 60, 0, "active", "fixed_amount", 50),
       Adv("v2", "D1", 60, 60, "paid", "fixed_amount", 50)>>}

\* the driver, with the commission total of each month
PayDrivers ==
    {[id |-> "D1", base_salary |-> 0, commission |-> [m \in Months |-> 0]],
     [id |-> "D1", base_salary |-> 1001,
      commission |-> [m \in Months |-> 2005 * (m - 1)]]}

ManualPaid == 20     \* the paid_amount a manual edit sets

NoReq == [pc |-> "idle", run |-> 0, todo |-> <<>>, paid |-> 0, applied |-> {}]

PayInit ==
    /\ StoreInit({NoFile})
    /\ arg \in PayDrivers
    /\ advances \in AdvInits
    /\ runs = <<>>
    /\ req = [p \in Procs |-> NoReq]
    /\ out = [op |-> "none", month |-> 0, advs |-> <<>>, run |-> 0]
    /\ dirs = {}

\* what a request leaves alone
PayFrame ==
    UNCHANGED <<file, snap, lock, now, pc, call, data, today, attempt,
                rattempt, result, stamp, ncalls, failed, prev, file0,
                callFile, dayFile, wroteToday, dirs, arg>>

\* a payroll run as filter_records sees it
RunView(r) ==
    [year |-> PyInt(r.year), month |-> PyInt(r.month),
     status |-> PyStr(r.status)]

\* create_payroll_run, lines 4473-4477: the filter, with a list for status
ExistingRuns(rs, y, m) ==
    FilterRecords([i \in 1..Len(rs) |-> RunView(rs[i])],
                  [year |-> PyInt(y), month |-> PyInt(m),
                   status |-> PyList(<<"pending", "approved">>)])

(***************************************************************************)
(* create_payroll_run, lines 4452-4503.                                    *)
(***************************************************************************)
CreatePayrollRun(y, m) ==
    /\ Len(runs) < MaxRuns
    /\ IF ExistingRuns(runs, y, m) # <<>>
       THEN /\ out' = [op |-> "rejected", month |-> m, advs |-> advances,
                       run |-> 0]
            /\ UNCHANGED runs
       ELSE LET calc == CalculateDriverPayroll(arg, advances, m)
                run == [id |-> Len(runs) + 1, year |-> y, month |-> m,
                        status |-> "pending",
                        advance_deductions_processed |-> FALSE,
                        gross_salary |-> calc.gross_salary,
                        advance_deduction |-> calc.advance_deduction,
                        net_salary |-> calc.net_salary,
                        advance_details |-> calc.advance_details]
            IN  /\ runs' = Append(runs, run)
                /\ out' = [op |-> "calc", month |-> m, advs |-> advances,
                           run |-> Len(runs) + 1]
    /\ UNCHANGED <<advances, req>>
    /\ PayFrame

(***************************************************************************)
(* approve_payroll_run, lines 4529-4541.                                   *)
(***************************************************************************)
ApprovePayrollRun(i) ==
    /\ i \in 1..Len(runs)
    /\ runs[i].status = "pending"
    /\ runs' = [runs EXCEPT ![i].status = "approved"]
    /\ UNCHANGED <<advances, req, out>>
    /\ PayFrame

(***************************************************************************)
(* process_payroll_deductions, lines 4556-4564: the route's tests of the   *)
(* run it read.                                                            *)
(***************************************************************************)
ProcessRequest(p, i) ==
    /\ req[p].pc = "idle"
    /\ i \in 1..Len(runs)
    /\ req' = [req EXCEPT ![p] =
                  [NoReq EXCEPT !.run = i,
                                !.pc = IF /\ runs[i].status = "approved"
                                          /\ ~runs[i].advance_deductions_processed
                                       THEN "load" ELSE "rejected"]]
    /\ UNCHANGED <<advances, runs, out>>
    /\ PayFrame

(***************************************************************************)
(* process_advance_deductions, lines 251-272: the run is read again and    *)
(* its status tested; its advance_details are what will be applied.        *)
(***************************************************************************)
ProcessLoad(p) ==
    /\ req[p].pc = "load"
    /\ LET run == runs[req[p].run]
       IN  req' = [req EXCEPT ![p].todo = run.advance_details,
                              ![p].pc = IF run.status # "approved" THEN "failed"
                                        ELSE IF run.advance_details = <<>>
                                        THEN "mark" ELSE "find"]
    /\ UNCHANGED <<advances, runs, out>>
    /\ PayFrame

AdvIdx(advs, id) ==
    IF \E i \in 1..Len(advs) : advs[i].id = id
    THEN CHOOSE i \in 1..Len(advs) :
            advs[i].id = id /\ \A j \in 1..(i - 1) : advs[j].id # id
    ELSE 0

(***************************************************************************)
(* lines 275-282: find_by_id of the advance of the next detail.            *)
(***************************************************************************)
ProcessFind(p) ==
    /\ req[p].pc = "find"
    /\ LET i == AdvIdx(advances, Head(req[p].todo).advance_id)
       IN  req' = [req EXCEPT ![p].paid = advances[i].paid_amount,
                              ![p].pc = "update"]
    /\ UNCHANGED <<advances, runs, out>>
    /\ PayFrame

\* lines 282-291: the new paid_amount and status of the advance
Deducted(a, paid, deduction_amount) ==
    LET new_paid_amount == paid + deduction_amount
    IN  [a EXCEPT !.paid_amount = new_paid_amount,
                  !.status = IF new_paid_amount >= a.amount THEN "paid"
                             ELSE IF new_paid_amount > 0 THEN "partial"
                             ELSE "active"]

(***************************************************************************)
(* lines 282-308: json_store.update of the advance with the paid_amount    *)
(* computed from the value read.                                           *)
(***************************************************************************)
ProcessUpdate(p) ==
    /\ req[p].pc = "update"
    /\ LET detail == Head(req[p].todo)
           i == AdvIdx(advances, detail.advance_id)
       IN  /\ advances' = [advances EXCEPT
                              ![i] = Deducted(@, req[p].paid,
                                              detail.deduction_amount)]
           /\ req' = [req EXCEPT
                         ![p].todo = Tail(@),
                         ![p].applied = @ \cup {detail.advance_id},
                         ![p].pc = IF Tail(req[p].todo) = <<>> THEN "mark"
                                   ELSE "find"]
    /\ UNCHANGED <<runs, out>>
    /\ PayFrame

(***************************************************************************)
(* lines 311-324: the run is marked advance_deductions_processed.          *)
(***************************************************************************)
ProcessMark(p) ==
    /\ req[p].pc = "mark"
    /\ runs' = [runs EXCEPT ![req[p].run].advance_deductions_processed = TRUE]
    /\ req' = [req EXCEPT ![p].pc = "done"]
    /\ UNCHANGED <<advances, out>>
    /\ PayFrame

(***************************************************************************)
(* lines 326-330: a store call raised (a write out of attempts); the       *)
(* exception is caught and the request answers with an error.              *)
(***************************************************************************)
ProcessFail(p) ==
    /\ req[p].pc \in {"update", "mark"}
    /\ req' = [req EXCEPT ![p].pc = "failed"]
    /\ UNCHANGED <<advances, runs, out>>
    /\ PayFrame

(***************************************************************************)
(* update_advance, lines 4217-4245: a manual edit of paid_amount, refused  *)
(* when negative or above the amount.                                      *)
(***************************************************************************)
UpdateAdvance(i, paid) ==
    /\ i \in 1..Len(advances)
    /\ paid # advances[i].paid_amount
    /\ paid >= 0
    /\ paid <= advances[i].amount
    /\ advances' = [advances EXCEPT
                       ![i].paid_amount = paid,
                       ![i].status = IF paid = 0 THEN "active"
                                     ELSE IF paid >= advances[i].amount
                                     THEN "paid" ELSE "partial"]
    /\ UNCHANGED <<runs, req, out>>
    /\ PayFrame

\* the steps that run inside PayrollCalculator.process_advance_deductions
CalculatorStep(p) ==
    \/ ProcessLoad(p)
    \/ ProcessFind(p)
    \/ ProcessUpdate(p)
    \/ ProcessMark(p)
    \/ ProcessFail(p)

(***************************************************************************)
(* PaySpec: payroll runs created, approved and processed by NProcs         *)
(* concurrent process-deductions requests, with manual edits of advances.  *)
(***************************************************************************)
PayNext ==
    \/ \E y \in Years, m \in Months : CreatePayrollRun(y, m)
    \/ \E i \in 1..MaxRuns : ApprovePayrollRun(i)
    \/ \E p \in Procs, i \in 1..MaxRuns : ProcessRequest(p, i)
    \/ \E p \in Procs : CalculatorStep(p)
    \/ \E i \in 1..Len(advances) : UpdateAdvance(i, ManualPaid)

PaySpec == PayInit /\ [][PayNext]_vars

(***************************************************************************)
(* CalcSpec: payroll runs calculated between manual edits of the advances; *)
(* nothing is approved or processed.                                       *)
(***************************************************************************)
CalcNext ==
    \/ \E y \in Years, m \in Months : CreatePayrollRun(y, m)
    \/ \E i \in 1..Len(advances) : UpdateAdvance(i, ManualPaid)

CalcSpec == PayInit /\ [][CalcNext]_vars

(***************************************************************************)
(* Running calls one at a time: what call c, with the id and timestamps    *)
(* st it drew (or the timestamp t when it drew none), makes of array d.    *)
(***************************************************************************)
ApplyCall(c, st, d, t) ==
    CASE c.op = "create" ->
            Append(d, CreateRec(c.record, st.id, st.tc, st.tu))
      [] c.op = "update" ->
            UpdateData(d, c.id, c.updates, IF st.idx # 0 THEN st.tu ELSE t)
      [] c.op = "delete" -> DeleteData(d, c.id)
      [] OTHER -> d

RECURSIVE Replay(_, _, _)
Replay(order, d, t) ==
    IF order = <<>> THEN d
    ELSE Replay(Tail(order),
                ApplyCall(call[Head(order)], stamp[Head(order)], d, t), t)

\* the sequences of length n of distinct callers out of S
Orders(S, n) ==
    {o \in [1..n -> S] : \A i, j \in 1..n : i # j => o[i] # o[j]}

Times == 0..MaxClock

AllDone == \A p \in Procs : pc[p] = "done"

\* p's call returned after a write that _write_with_lock reported done
Wrote(p) ==
    /\ pc[p] = "done"
    /\ Mutating(call[p])
    /\ result[p] \in {BoolResult(TRUE)} \cup {RecResult(r) : r \in Range(data[p])}

(***************************************************************************)
(* C1: N >= 2 create calls issued concurrently against one collection all  *)
(* return their record, and once all have returned the collection holds    *)
(* every record it held before plus the N created ones (count = initial    *)
(* count + N).                                                             *)
(***************************************************************************)
C1_NoLostUpdate ==
    (AllDone /\ \A p \in Procs : call[p].op = "create")
        => /\ \A p \in Procs : result[p].kind = "record"
           /\ Len(Parse(file)) = Len(Parse(file0)) + NProcs
           /\ \A p \in Procs : result[p].rec \in Range(Parse(file))
           /\ Range(Parse(file0)) \subseteq Range(Parse(file))

(***************************************************************************)
(* C2: concurrent create/update/delete calls on one collection leave the   *)
(* contents that running the same calls one at a time, in some order,      *)
(* produces.                                                               *)
(***************************************************************************)
C2_Serializable ==
    (AllDone /\ \A p \in Procs : Mutating(call[p]))
        => /\ file = NoFile \/ IsArray(file)
           /\ \E o \in Orders(Procs, NProcs), t \in Times :
                 Parse(file) = Replay(o, Parse(file0), t)

(***************************************************************************)
(* C3: a read_all that runs concurrently with writes returns the complete  *)
(* array as it was before or after one of them, never the content of a     *)
(* truncated or partly written file.                                       *)
(***************************************************************************)
C3_ReadSeesWholeArray ==
    \A p \in Procs :
        (pc[p] = "done" /\ call[p].op = "read_all")
            => \E n \in 0..(NProcs - 1) :
                  \E o \in Orders(Procs \ {p}, n), t \in Times :
                      result[p].l = Replay(o, Parse(file0), t)

(***************************************************************************)
(* C4: once concurrent writes to the file have completed, the file holds   *)
(* exactly the array passed to one of them, and parses as a JSON array.    *)
(***************************************************************************)
C4_WholeFileReplaced ==
    (AllDone /\ \E p \in Procs : Wrote(p))
        => /\ IsArray(file)
           /\ \E p \in Procs : Wrote(p) /\ file = Serialize(data[p])


(***************************************************************************)
(* C5: a create, update or delete that ends in a storage fault leaves the  *)
(* collection file with the contents it had before the call.               *)
(***************************************************************************)
C5_FailedWriteKeepsFile ==
    \A p \in Procs :
        (pc[p] = "done" /\ result[p] = Raised) => file = callFile[p]

(***************************************************************************)
(* C6: when the file write of create, update or delete fails on every      *)
(* retry the call raises a storage fault; a call that returns a record or  *)
(* a success value has written its whole array.                            *)
(***************************************************************************)
C6_ExhaustedWriteRaises ==
    \A p \in Procs :
        (pc[p] = "done" /\ Mutating(call[p]))
            => /\ failed[p] = max_retries => result[p] = Raised
               /\ (failed[p] > 0 /\ result[p] # Raised) => Wrote(p)
               /\ Wrote(p) => file = Serialize(data[p])

\* every attempt of a delete failed, and the caller got the exception
C6_Witness ==
    /\ pc[1] = "done"
    /\ call[1].op = "delete"
    /\ failed[1] = max_retries
    /\ attempt[1] = max_retries - 1
    /\ result[1] = Raised

(***************************************************************************)
(* C7: after any sequence of create, update and delete calls no two        *)
(* records of the collection have the same id.                             *)
(***************************************************************************)
C7_UniqueIds ==
    LET d == Parse(file)
    IN  \A i, j \in 1..Len(d) :
            (i # j /\ "id" \in DOMAIN d[i] /\ "id" \in DOMAIN d[j])
                => d[i].id # d[j].id

(***************************************************************************)
(* C8: for a file that exists when the day begins, the day's snapshot      *)
(* exists before the first mutating write of the day and holds the file as *)
(* it was before that write, also when several callers issue their first   *)
(* mutation of the day concurrently.  (Stated for calls that computed      *)
(* today's date, so no call that straddles midnight is held against it.)   *)
(***************************************************************************)
C8_SnapshotBeforeFirstWrite ==
    ( /\ wroteToday
      /\ dayFile # NoFile
      /\ \A p \in Procs :
            (Mutating(call[p]) /\ pc[p] \notin {"idle", "bk"})
                => today[p] = Day(now) )
        => snap[Day(now)] = dayFile

(***************************************************************************)
(* C9: the snapshot operation called again on the same calendar day for    *)
(* the same collection file copies nothing: a snapshot that exists is      *)
(* never written again, whatever the collection file has become.           *)
(***************************************************************************)
C9_SnapshotOncePerDay ==
    [][\A d \in Days : snap[d] # NoFile => snap'[d] = snap[d]]_vars

\* the second call of the day went through the snapshot operation after the
\* first one changed the file, and the day's snapshot is still the old file
C9_Witness ==
    /\ ncalls[1] = 2
    /\ Mutating(call[1])
    /\ Mutating(prev[1].call)
    /\ pc[1] \notin {"idle", "bk", "bkcopy"}
    /\ today[1] = Day(now)
    /\ snap[today[1]] = dayFile
    /\ dayFile # NoFile
    /\ callFile[1] # dayFile
    /\ IsArray(callFile[1])

(***************************************************************************)
(* C10: create(c, r) for a record r without an id, followed at once by     *)
(* find_by_id(c, result.id), finds a record equal to the one create        *)
(* returned.                                                               *)
(***************************************************************************)
C10_CreateThenFind ==
    \A p \in Procs :
        ( /\ pc[p] = "done"
          /\ call[p].op = "find_by_id"
          /\ prev[p].call.op = "create"
          /\ "id" \notin DOMAIN prev[p].call.record
          /\ prev[p].result.kind = "record"
          /\ call[p].id = prev[p].result.rec.id )
            => result[p] = prev[p].result


(***************************************************************************)
(* An update by p of an id that was in the collection has returned.        *)
(***************************************************************************)
Updated(p) ==
    /\ pc[p] = "done"
    /\ call[p].op = "update"
    /\ result[p] # Raised
    /\ FindIdx(Parse(callFile[p]), call[p].id) # 0

\* the update changed the array d0 into d1 by a shallow merge of the keys
\* ks of the updates into the record at index i, and returned res
MergedInto(d0, d1, i, updates, ks, res) ==
    /\ Len(d1) = Len(d0)
    /\ \A j \in 1..Len(d0) : j # i => d1[j] = d0[j]
    /\ DOMAIN d1[i] = DOMAIN d0[i] \cup DOMAIN updates \cup {"updated_at"}
    /\ \A k \in ks : d1[i][k] = updates[k]
    /\ \A k \in DOMAIN d0[i] \ (DOMAIN updates \cup {"updated_at"}) :
          d1[i][k] = d0[i][k]
    /\ res = RecResult(d1[i])

(***************************************************************************)
(* C11 as claimed: update on an existing id merges partial_fields into     *)
(* the matching record only: each key of partial_fields takes the new      *)
(* value, every other field but updated_at keeps its value, the other      *)
(* records and the order stay, and the merged record is returned.          *)
(***************************************************************************)
C11_MergeEveryKey ==
    \A p \in Procs :
        Updated(p)
            => MergedInto(Parse(callFile[p]), Parse(file),
                          FindIdx(Parse(callFile[p]), call[p].id),
                          call[p].updates, DOMAIN call[p].updates, result[p])

(***************************************************************************)
(* C11 as amended: the same, for each key of partial_fields other than     *)
(* updated_at, which the store sets to the time of the update.             *)
(***************************************************************************)
C11_MergeButUpdatedAt ==
    \A p \in Procs :
        Updated(p)
            => MergedInto(Parse(callFile[p]), Parse(file),
                          FindIdx(Parse(callFile[p]), call[p].id),
                          call[p].updates,
                          DOMAIN call[p].updates \ {"updated_at"}, result[p])

\* an update of the status of a stored record returned the merged record
C11_Witness ==
    /\ Updated(1)
    /\ call[1].updates = [status |-> "expired"]
    /\ Parse(callFile[1])[1].status = "active"
    /\ result[1].rec.status = "expired"
    /\ result[1].rec.id = call[1].id
    /\ Parse(file)[1] = result[1].rec


(***************************************************************************)
(* C12: created_at never changes after create: after an update, with any   *)
(* partial_fields, the record's created_at is the value it had.            *)
(***************************************************************************)
C12_CreatedAtImmutable ==
    \A p \in Procs :
        Updated(p)
            => LET d0 == Parse(callFile[p])
                   i == FindIdx(d0, call[p].id)
               IN  /\ result[p].rec.created_at = d0[i].created_at
                   /\ Parse(file)[i].created_at = d0[i].created_at

\* d without its records of id rid, the others in their order
Without(d, rid) ==
    LET Other(r) == "id" \notin DOMAIN r \/ r.id # rid IN SelectSeq(d, Other)

(***************************************************************************)
(* C13: delete of an id that is present returns true and leaves the other  *)
(* records in their order; a find_by_id of the id that follows returns     *)
(* absent; a second delete of the id returns false and leaves the          *)
(* collection unchanged.                                                   *)
(***************************************************************************)
C13_DeleteIsFinal ==
    \A p \in Procs :
        LET c == call[p]
            d0 == Parse(callFile[p])
            AfterDelete == /\ prev[p].call.op = "delete"
                           /\ prev[p].call.id = c.id
                           /\ prev[p].result = BoolResult(TRUE)
        IN  /\ (pc[p] = "done" /\ c.op = "delete" /\ FindIdx(d0, c.id) # 0)
                  => /\ result[p] = BoolResult(TRUE)
                     /\ Parse(file) = Without(d0, c.id)
                     /\ FindIdx(Parse(file), c.id) = 0
            /\ (pc[p] = "done" /\ c.op = "find_by_id" /\ AfterDelete)
                  => result[p] = NoneResult
            /\ (pc[p] = "done" /\ c.op = "delete" /\ AfterDelete)
                  => /\ result[p] = BoolResult(FALSE)
                     /\ file = callFile[p]

\* the first of three records was deleted, the two others stayed in order,
\* and the second delete of the id returned false
C13_Witness ==
    /\ pc[1] = "done"
    /\ call[1] = [op |-> "delete", id |-> "a1"]
    /\ prev[1] = [call |-> call[1], result |-> BoolResult(TRUE)]
    /\ result[1] = BoolResult(FALSE)
    /\ Parse(file) = <<R1, R2>>


C15_ReadAllNeverRaises ==
    \A p \in Procs :
        (pc[p] = "done" /\ call[p].op = "read_all")
            => result[p].kind = "list"


\* p's call has been issued and has neither returned nor raised
InFlight(p) == pc[p] \notin {"idle", "done"}

(***************************************************************************)
(* C16: a locked read or write gives up after at most 5 attempts, so every *)
(* store call returns or fails after a bounded number of its own steps     *)
(* even if another process holds the file lock and never releases it: a    *)
(* call in flight always has a step it can take, whatever the others do.   *)
(***************************************************************************)
C16_NeverWaitsOnOthers ==
    \A p \in Procs :
        /\ attempt[p] < max_retries
        /\ rattempt[p] < max_retries
        /\ InFlight(p) => ENABLED Step(p)


\* the snapshot p's call asked for was not made: the copy failed
SnapshotFailed(p) ==
    /\ Mutating(call[p])
    /\ pc[p] \notin {"idle", "bk", "bkcopy"}
    /\ callFile[p] # NoFile
    /\ snap[today[p]] = NoFile

\* what p's call returns when nothing fails
Expected(p) ==
    LET c == call[p]
        d0 == Parse(callFile[p])
        d1 == ApplyCall(c, stamp[p], d0, now)
    IN  CASE c.op = "create" -> RecResult(d1[Len(d1)])
          [] c.op = "update" ->
                IF FindIdx(d0, c.id) = 0 THEN NoneResult
                ELSE RecResult(d1[FindIdx(d0, c.id)])
          [] c.op = "delete" -> BoolResult(FindIdx(d0, c.id) # 0)

(***************************************************************************)
(* C17: a failure of the daily snapshot never blocks or fails the create,  *)
(* update or delete it precedes: the call goes on to its read, and when    *)
(* nothing else fails it changes the collection and returns what it        *)
(* returns when the snapshot succeeds; no exception reaches the caller.    *)
(***************************************************************************)
C17_SnapshotFailureSwallowed ==
    \A p \in Procs :
        SnapshotFailed(p)
            => /\ result[p] = Raised
                    => (failed[p] = max_retries \/ rattempt[p] = max_retries - 1)
               /\ (pc[p] = "done" /\ failed[p] = 0 /\ rattempt[p] = 0)
                    => /\ result[p] = Expected(p)
                       /\ Parse(file) = ApplyCall(call[p], stamp[p],
                                                  Parse(callFile[p]), now)

\* a create went through after its snapshot failed
C17_Witness ==
    /\ SnapshotFailed(1)
    /\ pc[1] = "done"
    /\ failed[1] = 0
    /\ rattempt[1] = 0
    /\ call[1].op = "create"
    /\ result[1].kind = "record"
    /\ Len(Parse(file)) = Len(Parse(callFile[1])) + 1


(***************************************************************************)
(* C18: update and delete on an id that is not in the collection are not   *)
(* errors: update returns absent, delete returns false, and neither        *)
(* changes the contents of the collection file.                            *)
(***************************************************************************)
C18_MissingIdIsNoOp ==
    \A p \in Procs :
        (/\ pc[p] = "done"
         /\ call[p].op \in {"update", "delete"}
         /\ FindIdx(Parse(callFile[p]), call[p].id) = 0)
            => /\ call[p].op = "update" => result[p] = NoneResult
               /\ call[p].op = "delete" => result[p] = BoolResult(FALSE)
               /\ file = callFile[p]

\* a delete of an id that the one-record collection does not hold
C18_Witness ==
    /\ pc[1] = "done"
    /\ call[1] = [op |-> "delete", id |-> "b2"]
    /\ Parse(callFile[1]) = <<R0>>
    /\ result[1] = BoolResult(FALSE)
    /\ file = callFile[1]


(***************************************************************************)
(* C19: in the record that create stores and returns, created_at equals    *)
(* updated_at.                                                             *)
(***************************************************************************)
C19_CreateStampsEqual ==
    \A p \in Procs :
        (pc[p] = "done" /\ call[p].op = "create" /\ result[p].kind = "record")
            => /\ result[p].rec.created_at = result[p].rec.updated_at
               /\ LET stored == data[p][Len(data[p])]
                  IN  stored.created_at = stored.updated_at

(***************************************************************************)
(* C20: every successful update of a record leaves its updated_at strictly *)
(* greater than the value it had before that update.                       *)
(***************************************************************************)
C20_UpdatedAtGrows ==
    \A p \in Procs :
        (Updated(p) /\ result[p].kind = "record")
            => LET d0 == Parse(callFile[p])
               IN  result[p].rec.updated_at
                       > d0[FindIdx(d0, call[p].id)].updated_at


(***************************************************************************)
(* C27: every locked read and locked write releases its file lock before   *)
(* it returns or raises, on every path, parse failure, write failure and   *)
(* fsync failure included: no call that is over, and none that is outside  *)
(* the locked region, holds a lock on the collection file.                 *)
(***************************************************************************)
C27_NoLockLeftHeld ==
    \A p \in Procs :
        /\ pc[p] \in {"idle", "done"} => lock[p] = "none"
        /\ lock[p] = "sh" => pc[p] = "rdload"
        /\ lock[p] = "ex" => pc[p] = "wdump"

\* a write whose every attempt failed at os.fsync raised with no lock held
C27_Witness ==
    /\ pc[1] = "done"
    /\ result[1] = Raised
    /\ failed[1] = max_retries
    /\ file = Serialize(data[1])
    /\ lock[1] = "none"


(***************************************************************************)
(* C21: prune(retention_days) deletes, each as a whole, every backup       *)
(* directory whose creation time is older than now minus retention_days    *)
(* and deletes no directory created at or after that cutoff; full-backup   *)
(* directories follow the same rule as the daily ones.                     *)
(***************************************************************************)
C21_PruneByCreationTime ==
    out.op = "prune"
        => dirs = {d \in out.before : ~(d.created < out.cutoff)}

(***************************************************************************)
(* C22: every call to full_backup creates a new directory, distinct from   *)
(* every directory that exists, holding a verbatim copy of each collection *)
(* file present, and returns its path, however close in time two calls     *)
(* are.                                                                    *)
(***************************************************************************)
C22_FullBackupAlwaysNew ==
    out.op = "full"
        => /\ out.ok
           /\ out.path \notin Names(out.before)
           /\ out.path \in Names(dirs)
           /\ DirNamed(dirs, out.path).files = arg


(***************************************************************************)
(* C23: filter_records(c, filters) returns exactly the records of          *)
(* read_all(c), in the same order, in which every key of filters is        *)
(* present with a value equal to the filter value, with no partial         *)
(* matching and no type coercion: the value has the filter value's type.   *)
(***************************************************************************)
C23_FilterExact ==
    out.done
        => LET Exact(r) ==
                   \A k \in DOMAIN arg.filters :
                       /\ k \in DOMAIN r
                       /\ r[k].t = arg.filters[k].t
                       /\ r[k].v = arg.filters[k].v
           IN  out.l = SelectSeq(arg.data, Exact)


(***************************************************************************)
(* C23, amended: the value equals the filter value as Python's == has it:  *)
(* a string equals only the same string, whole, and never a number; an     *)
(* int, a float and a bool are equal when their numeric values are.        *)
(***************************************************************************)
C23_FilterPyEqual ==
    out.done
        => LET Same(a, b) ==
                   \/ a.t = b.t /\ a.v = b.v
                   \/ a.t # "str" /\ b.t # "str" /\ a.v = b.v
               Wanted(r) ==
                   \A k \in DOMAIN arg.filters :
                       k \in DOMAIN r /\ Same(r[k], arg.filters[k])
           IN  out.l = SelectSeq(arg.data, Wanted)

\* of two records the one without the filter's status key was left out and
\* the one with both values was returned
C23_Witness ==
    /\ out.done
    /\ DOMAIN arg.filters = {"year", "status"}
    /\ Len(arg.data) = 2
    /\ DOMAIN arg.data[1] = {"year"}
    /\ arg.data[1].year = arg.filters.year
    /\ out.l = <<arg.data[2]>>


RECURSIVE SumSeq(_)
SumSeq(q) == IF q = <<>> THEN 0 ELSE Head(q) + SumSeq(Tail(q))

(***************************************************************************)
(* C25: calculate_driver_payroll returns gross_salary = base_salary + the  *)
(* month's commission total, advance_deduction = the sum, over the         *)
(* driver's active or partial advances with a positive remaining balance,  *)
(* of the configured deduction (a fixed amount, or a percentage of gross   *)
(* pay) capped at the remaining balance, rounded to three decimals, and    *)
(* net_salary = gross_salary - advance_deduction.                          *)
(***************************************************************************)
C25_PayrollArithmetic ==
    out.op = "calc"
        => LET run == runs[out.run]
               gross == arg.base_salary + arg.commission[out.month]
               Owed(a) ==
                   IF /\ a.driver_id = arg.id
                      /\ a.status \in {"active", "partial"}
                      /\ a.amount > a.paid_amount
                   THEN LET cap == (a.amount - a.paid_amount) * 100
                            asked ==
                                IF a.advance_deduction_mode = "fixed_amount"
                                THEN a.advance_deduction_value * 100
                                ELSE a.advance_deduction_value * gross
                        IN  IF asked < cap THEN asked ELSE cap
                   ELSE 0
           IN  /\ run.gross_salary = gross
               /\ run.advance_deduction =
                      Round3(SumSeq([i \in 1..Len(out.advs) |-> Owed(out.advs[i])]))
               /\ run.net_salary = run.gross_salary - run.advance_deduction

\* gross 3.006: 10% of it capped at the 0.050 left of one advance, 0.3006 for
\* the other, 0.351 deducted after rounding, 2.655 net
C25_Witness ==
    /\ out.op = "calc"
    /\ Len(out.advs) = 2
    /\ out.advs[1].advance_deduction_mode = "percentage"
    /\ out.advs[1].paid_amount = 10
    /\ runs[out.run].gross_salary = 3006
    /\ runs[out.run].advance_deduction = 351
    /\ runs[out.run].net_salary = 2655

(***************************************************************************)
(* C26: the commission and payroll calculators only read: no step of an    *)
(* operation of PayrollCalculator changes the contents of a collection.    *)
(***************************************************************************)
C26_CalculatorsOnlyRead ==
    [][(\E p \in Procs : CalculatorStep(p)) => UNCHANGED <<advances, runs>>]_vars

(***************************************************************************)
(* C28: the advance deductions of a payroll run are applied at most once:  *)
(* a process-deductions request goes on only for an approved run, and no   *)
(* two requests for one run, concurrent or one after the failure of the    *)
(* other, add the run's deduction to the same advance.                     *)
(***************************************************************************)
C28_DeductionsAppliedOnce ==
    \A p, q \in Procs :
        /\ req[p].pc \in {"load", "find", "update", "mark", "done"}
              => runs[req[p].run].status = "approved"
        /\ (p # q /\ req[p].run # 0 /\ req[p].run = req[q].run)
              => req[p].applied \cap req[q].applied = {}

(***************************************************************************)
(* C29: after any sequence of create_payroll_run requests at most one run  *)
(* with status pending or approved exists for a year and month.            *)
(***************************************************************************)
C29_OneOpenRunPerMonth ==
    \A i, j \in 1..Len(runs) :
        (/\ i # j
         /\ runs[i].status \in {"pending", "approved"}
         /\ runs[j].status \in {"pending", "approved"})
            => <<runs[i].year, runs[i].month>> # <<runs[j].year, runs[j].month>>

(***************************************************************************)
(* C30: every advance keeps paid_amount <= amount after any sequence of    *)
(* runs calculated, approved and processed, manual edits included, even    *)
(* when the runs are for different months and each run is processed by     *)
(* one request only.                                                       *)
(***************************************************************************)
C30_PaidWithinAmount ==
    (/\ \A p, q \in Procs :
            (p # q /\ req[p].run # 0) => req[p].run # req[q].run
     /\ \A i, j \in 1..Len(runs) : i # j => runs[i].month # runs[j].month)
        => \A i \in 1..Len(advances) :
               advances[i].paid_amount <= advances[i].amount

============================================================================
